---- MODULE Spec2Model ----
(***************************************************************************)
(* A model of cdf_2023: the assembly network with its placement and        *)
(* connector logic (assembly/assembly.py), the static equilibrium check,   *)
(* the base pose map (robot/base_map.py) and the reachability dataset fed  *)
(* by a message listener (robot/reuleaux.py).                              *)
(*                                                                         *)
(* The network is compas' Network: a dict of nodes in insertion order, a   *)
(* dict of directed edges u -> v, and the counter _max_node that add_node  *)
(* advances when no key is given.  add_edge creates the end nodes it does  *)
(* not find, with no attributes.                                           *)
(***************************************************************************)
EXTENDS Integers, Sequences, FiniteSets, TLC

VARIABLES
    node,        \* network.node keys, in insertion order
    elem,        \* key -> the 'element' attribute of the node (its connector states)
    edge,        \* set of [u, v, edge_to]
    max_node,    \* network._max_node
    call,        \* the last Assembly operation: its arguments and its outcome
    se,          \* static_equilibrium_check: the locals of the running evaluation
    base_map,    \* BaseMap.base_map: sequence of entries, key = index - 1
    reuleaux,    \* the ReuleauxReachability instance: header, spheres, resolution
    query,       \* the last get_reuleaux_index_by_base_pose: arguments and outcome
    feed,        \* update_from_message in progress: position and message
    collision_call,  \* collision_check: the centerline distances and the last call
    build_stores_root  \* whether KDTree.build leaves its result in the tree's root

vars == <<node, elem, edge, max_node, call, se, base_map, reuleaux, query, feed,
          collision_call, build_stores_root>>

----------------------------------------------------------------------------
(* Bounds of the model *)

\* explicit keys given to add_element range over 0..MaxKey
MaxKey == 1
\* no operation that adds nodes starts on a network of more than MaxNodes nodes
MaxNodes == 2
\* and none when _max_node has reached MaxCounter
MaxCounter == 3
\* static_equilibrium_check runs on assemblies of 0..MaxPlaced elements
MaxPlaced == 3
\* points lie on the x axis at 0..MaxPoint, in units of 0.01
MaxPoint == 2
\* a reachability dataset holds 0..MaxSpheres spheres
MaxSpheres == 2
\* a goal point cloud holds 1..MaxGoals points
MaxGoals == 2
\* no query starts on a base pose map of MaxEntries entries
MaxEntries == 2
\* in the sequences of modules no close_rf_unit starts on more than MaxUnits nodes
MaxUnits == 3
\* collision_check runs on 0..MaxBuilt elements and 0..MaxOptions candidates
MaxBuilt == 2
MaxOptions == 2

----------------------------------------------------------------------------
(* Helpers *)

Range(s) == {s[i] : i \in DOMAIN s}

\* the element of a one-element set: { f(x) : x \in {v} } evaluates v once
Only(S) == CHOOSE x \in S : TRUE

\* add_element(element, key=None): the default of the key parameter
NoKey == -1

Flips == {"AA", "AB", "BA", "BB"}
\* a flip code outside the four the code tests for
BadFlip == "XX"
Actors == {"robot", "human"}

\* an Element as far as the assembly reads it: the two connector states
Element(c1, c2) == [connector_1_state |-> c1, connector_2_state |-> c2]
Elements == {Element(c1, c2) : c1, c2 \in BOOLEAN}

\* element.connector_<i>_state = False
CloseConnector(e, i) ==
    IF i = 1 THEN [e EXCEPT !.connector_1_state = FALSE]
             ELSE [e EXCEPT !.connector_2_state = FALSE]

\* the network as one value
Network(n, el, ed, mx) == [node |-> n, elem |-> el, edge |-> ed, max_node |-> mx]
G == Network(node, elem, edge, max_node)

\* network.add_node(key, element=...): a given key is kept (and raises
\* _max_node when larger), no key takes _max_node + 1; an existing node is
\* updated in place, a new one is appended
add_node(g, key, withElement, e) ==
    LET k  == IF key = NoKey THEN g.max_node + 1 ELSE key
        mx == IF k > g.max_node THEN k ELSE g.max_node
        n  == IF k \in Range(g.node) THEN g.node ELSE Append(g.node, k)
        el == IF withElement
              THEN [x \in DOMAIN g.elem \cup {k} |-> IF x = k THEN e ELSE g.elem[x]]
              ELSE g.elem
    IN  [g |-> Network(n, el, g.edge, mx), key |-> k]

\* network.add_edge(u, v, edge_to=tag): missing end nodes are created bare;
\* an existing edge u -> v keeps its place and takes the new attribute
add_edge(g, u, v, tag) ==
    LET g1 == IF u \in Range(g.node) THEN g ELSE add_node(g, u, FALSE, Element(FALSE, FALSE)).g
        g2 == IF v \in Range(g1.node) THEN g1 ELSE add_node(g1, v, FALSE, Element(FALSE, FALSE)).g
    IN  [g2 EXCEPT !.edge = {x \in @ : ~(x.u = u /\ x.v = v)}
                             \cup {[u |-> u, v |-> v, edge_to |-> tag]}]

\* Assembly.add_element(element, key): the node of the element
add_element(g, e, key) == add_node(g, key, TRUE, e)

----------------------------------------------------------------------------
(* Placement: add_rf_unit_element, update_connectors_states, close_rf_unit *)

\* Element.copy(): the new element starts from the current one; the copy
\* carries the connector states over or comes with both connectors open
copy(e) == {e, Element(TRUE, TRUE)}

\* the connector add_rf_unit_element attaches to: 1 when connector 1 is
\* open, else 2 (with no test of connector 2), and the sign c chosen with it
used_connector(e) == IF e.connector_1_state THEN 1 ELSE 2

\* (mutant) the sign is taken from the state of connector 2
sign_c_of_connector_2(e) == IF e.connector_2_state THEN 1 ELSE -1

\* the sign c chosen with the connector
sign_c(e) == IF e.connector_1_state THEN -1 ELSE 1

\* (mutant) a and b start at 0, so that any flip code passes
flip_bound_default(flip) == TRUE

\* whether the four tests of the flip code bind a and b
flip_bound(flip) == flip \in Flips

\* the factors a and b of the translation T1
factor_a(flip, c) == IF flip \in {"BA", "BB"} THEN c ELSE 0
factor_b(flip, c) == IF flip \in {"AB", "BB"} THEN c ELSE 0

\* the rotation R1 and the factor of T1 by actor
R1_angle(placed_by) == IF placed_by = "robot" THEN 120 ELSE 240
T1_factor(placed_by, flip, c) ==
    IF placed_by = "robot" THEN factor_a(flip, c) ELSE factor_b(flip, c)

\* the transformation R1 * T1 that add_rf_unit_element applies to the new
\* element: the angle of R1 in degrees and the factor of T1; none when the
\* call raises before it transforms
NoTransform == [angle |-> 0, factor |-> 0, applied |-> FALSE]
rf_unit_transform(g, current_key, flip, placed_by) ==
    IF current_key \notin DOMAIN g.elem \/ ~flip_bound(flip)
    THEN NoTransform
    ELSE [angle |-> R1_angle(placed_by),
          factor |-> T1_factor(placed_by, flip, sign_c(g.elem[current_key])),
          applied |-> TRUE]

\* the transition table: the connector closed on the previous element and
\* on the new element, for the branch of connector 2 and of connector 1
row_connector_2 ==
    [AA |-> <<2, 2>>, AB |-> <<2, 1>>, BA |-> <<1, 2>>, BB |-> <<1, 1>>]

\* (mutant) the BA entry of the branch of connector 1 repeats that of the
\* branch of connector 2
row_connector_1_BA_repeated ==
    [AA |-> <<1, 1>>, AB |-> <<1, 2>>, BA |-> <<1, 2>>, BB |-> <<2, 2>>]

row_connector_1 ==
    [AA |-> <<1, 1>>, AB |-> <<1, 2>>, BA |-> <<2, 1>>, BB |-> <<2, 2>>]

\* one branch of the table applied: previous_elem and my_new_elem each
\* lose one connector; a flip code none of the four tests matches changes
\* nothing
apply_row(el, table, flip, prev, new) ==
    IF flip \notin DOMAIN table
    THEN el
    ELSE LET e1 == [el EXCEPT ![prev] = CloseConnector(@, table[flip][1])]
         IN  [e1 EXCEPT ![new] = CloseConnector(@, table[flip][2])]

\* (mutant) the table is applied whatever the unit_index
update_connectors_states_any_unit(g, current_key, flip, new_key, unit_index) ==
    LET prev == Len(g.node) - 2
    IN  IF current_key \notin DOMAIN g.elem \/ prev \notin DOMAIN g.elem
        THEN [g |-> g, raised |-> "KeyError"]
        ELSE LET e0 == g.elem
                 e1 == IF e0[current_key].connector_2_state
                       THEN apply_row(e0, row_connector_2, flip, prev, new_key)
                       ELSE e0
                 e2 == IF e1[current_key].connector_1_state
                       THEN apply_row(e1, row_connector_1, flip, prev, new_key)
                       ELSE e1
             IN  [g |-> [g EXCEPT !.elem = e2], raised |-> "none"]

\* update_connectors_states: previous_elem is the node whose key is the
\* index of the node before the last one; both branches are tested in
\* turn, the second on the states the first has left
update_connectors_states(g, current_key, flip, new_key, unit_index) ==
    LET prev == Len(g.node) - 2
    IN  IF current_key \notin DOMAIN g.elem \/ prev \notin DOMAIN g.elem
        THEN [g |-> g, raised |-> "KeyError"]
        ELSE IF unit_index # 1
        THEN [g |-> g, raised |-> "none"]
        ELSE LET e0 == g.elem
                 e1 == IF e0[current_key].connector_2_state
                       THEN apply_row(e0, row_connector_2, flip, prev, new_key)
                       ELSE e0
                 e2 == IF e1[current_key].connector_1_state
                       THEN apply_row(e1, row_connector_1, flip, prev, new_key)
                       ELSE e1
             IN  [g |-> [g EXCEPT !.elem = e2], raised |-> "none"]

\* the edges of a placement: the new node is addressed as N, the number of
\* nodes before the placement
add_edges(g, current_key, N, unit_index) ==
    IF unit_index = 0
    THEN add_edge(g, current_key, N, "neighbour")
    ELSE Only({add_edge(g1, current_key, N, "parent") :
               g1 \in {add_edge(g, N - 1, N, "parent")}})

\* (mutant) the used connector of the current element is left as it is
close_used_skipped(g, current_key, unit_index) == g

\* the closing of the used connector of the current element after a
\* unit_index = 1 placement, tested on the states as they are then
close_used(g, current_key, unit_index) ==
    IF unit_index = 1
    THEN [g EXCEPT !.elem[current_key] = CloseConnector(@, used_connector(@))]
    ELSE g

\* add_rf_unit_element; copied is what current_elem.copy() returned.
\* The result: the network as the call leaves it, the exception raised
\* ("none" when it returns) and the key of the node of the new element.
add_rf_unit_element(g, current_key, flip, placed_by, unit_index, copied) ==
    IF current_key \notin DOMAIN g.elem
    THEN [g |-> g, raised |-> "KeyError", key |-> NoKey]
    ELSE IF ~flip_bound(flip)
    THEN [g |-> g, raised |-> "UnboundLocalError", key |-> NoKey]
    ELSE Only({
        Only({
            Only({
                IF upd.raised # "none"
                THEN [g |-> upd.g, raised |-> upd.raised, key |-> added.key]
                ELSE [g |-> close_used(upd.g, current_key, unit_index),
                      raised |-> "none", key |-> added.key] :
                upd \in {update_connectors_states(g2, current_key, flip, added.key, unit_index)}}) :
            g2 \in {add_edges(added.g, current_key, Len(g.node), unit_index)}}) :
        added \in {add_element(g, copied, NoKey)}})

\* the connector of the current element whose frame a placement takes as
\* current_connector_frame
NoConnector == 0
attached_at(g, current_key) ==
    IF current_key \in DOMAIN g.elem
    THEN used_connector(g.elem[current_key])
    ELSE NoConnector

\* one call of add_rf_unit_element as its caller made it: the arguments,
\* the key of the node that holds the element it returned and the
\* connector of the current element it attached the element to
Placement(placed_by, unit_index, flip, current_key, key, connector) ==
    [placed_by |-> placed_by, unit_index |-> unit_index, flip |-> flip,
     current_key |-> current_key, key |-> key, connector |-> connector]

\* (mutant) the human's placement comes first
close_rf_unit_human_first(g, current_key, flip, copied0, copied1) ==
    Only({
        IF r0.raised # "none"
        THEN [g |-> r0.g, raised |-> r0.raised, keys_robot |-> NoKey, keys_human |-> NoKey,
              placements |-> <<Placement("human", 0, flip, current_key, r0.key,
                                         attached_at(g, current_key))>>]
        ELSE Only({
            [g |-> r1.g, raised |-> r1.raised, keys_robot |-> r1.key, keys_human |-> r0.key,
             placements |-> <<Placement("human", 0, flip, current_key, r0.key,
                                        attached_at(g, current_key)),
                              Placement("robot", 1, flip, current_key, r1.key,
                                        attached_at(r0.g, current_key))>>] :
            r1 \in {add_rf_unit_element(r0.g, current_key, flip, "robot", 1, copied1)}}) :
        r0 \in {add_rf_unit_element(g, current_key, flip, "human", 0, copied0)}})

\* close_rf_unit: the robot's placement (unit_index 0), then the human's
\* (unit_index 1) on the same current_key; an exception of the first ends
\* the call.  keys_robot and keys_human are the keys of the nodes whose
\* 'element' is the element each placement returned, one node each.
close_rf_unit(g, current_key, flip, copied0, copied1) ==
    Only({
        IF r0.raised # "none"
        THEN [g |-> r0.g, raised |-> r0.raised, keys_robot |-> NoKey, keys_human |-> NoKey,
              placements |-> <<Placement("robot", 0, flip, current_key, r0.key,
                                         attached_at(g, current_key))>>]
        ELSE Only({
            [g |-> r1.g, raised |-> r1.raised, keys_robot |-> r0.key, keys_human |-> r1.key,
             placements |-> <<Placement("robot", 0, flip, current_key, r0.key,
                                        attached_at(g, current_key)),
                              Placement("human", 1, flip, current_key, r1.key,
                                        attached_at(r0.g, current_key))>>] :
            r1 \in {add_rf_unit_element(r0.g, current_key, flip, "human", 1, copied1)}}) :
        r0 \in {add_rf_unit_element(g, current_key, flip, "robot", 0, copied0)}})

\* (mutant) connector 1 is set from the range test whatever its state
range_filter_element_reset(e, k, far) ==
    [e EXCEPT !.connector_1_state = <<k, 1>> \notin far]

\* range_filter: per element, connector 1 is tested when open, connector 2
\* only when connector 1 is not; far is the set of <<key, connector>> whose
\* distance to base_frame lies outside [ur_range_min, ur_range_max]
range_filter_element(e, k, far) ==
    IF e.connector_1_state
    THEN (IF <<k, 1>> \in far THEN CloseConnector(e, 1) ELSE e)
    ELSE IF e.connector_2_state
    THEN (IF <<k, 2>> \in far THEN CloseConnector(e, 2) ELSE e)
    ELSE e

\* the elements are visited in node order; a node that holds no element
\* ends the call with a KeyError, the elements before it already filtered
range_filter(g, far) ==
    LET bare == {i \in DOMAIN g.node : g.node[i] \notin DOMAIN g.elem}
        stop == IF bare = {} THEN Len(g.node) + 1
                ELSE CHOOSE i \in bare : \A j \in bare : i <= j
        seen == {g.node[i] : i \in 1..(stop - 1)}
    IN  [g |-> [g EXCEPT !.elem = [k \in DOMAIN g.elem |->
                    IF k \in seen THEN range_filter_element(g.elem[k], k, far)
                    ELSE g.elem[k]]],
         raised |-> IF bare = {} THEN "none" ELSE "KeyError"]

----------------------------------------------------------------------------
(* The operations of Assembly as actions *)

\* the record kept of the last operation
\* placements lists the calls of add_rf_unit_element the operation made
Call(op, current_key, flip, placed_by, unit_index, raised, key, key2, placements) ==
    [op |-> op, current_key |-> current_key, flip |-> flip, placed_by |-> placed_by,
     unit_index |-> unit_index, raised |-> raised, key |-> key, key2 |-> key2,
     placements |-> placements]

NoCall == Call("init", NoKey, "AA", "human", 0, "none", NoKey, NoKey, << >>)

SetNetwork(g) ==
    /\ node' = g.node
    /\ elem' = g.elem
    /\ edge' = g.edge
    /\ max_node' = g.max_node

\* what the operations of Assembly leave alone
others_of_assembly ==
    <<se, base_map, reuleaux, query, feed, collision_call, build_stores_root>>

\* whether the network may still grow within the bounds
MayGrow == Len(node) < MaxNodes /\ max_node < MaxCounter

InitAssembly ==
    /\ node = << >>
    /\ elem = << >>
    /\ edge = {}
    /\ max_node = -1
    /\ call = NoCall

\* assembly.add_element(element) and assembly.add_element(element, key=k)
AddElement ==
    /\ UNCHANGED others_of_assembly
    /\ MayGrow
    /\ \E e \in Elements, k \in {NoKey} \cup (0..MaxKey) :
          LET r == add_element(G, e, k)
          IN  /\ SetNetwork(r.g)
              /\ call' = Call("add_element", NoKey, "AA", "human", 0, "none", r.key, NoKey, << >>)

\* assembly.clear(): the nodes and edges go, _max_node stays
Clear ==
    /\ UNCHANGED others_of_assembly
    /\ node # << >>
    /\ node' = << >>
    /\ elem' = << >>
    /\ edge' = {}
    /\ max_node' = max_node
    /\ call' = Call("clear", NoKey, "AA", "human", 0, "none", NoKey, NoKey, << >>)

\* assembly.add_rf_unit_element(current_key, flip, placed_by=..., unit_index=...)
AddRfUnitElement ==
    /\ UNCHANGED others_of_assembly
    /\ MayGrow
    /\ \E k \in Range(node), flip \in Flips \cup {BadFlip}, by \in Actors, ui \in {0, 1} :
       \E c \in (IF k \in DOMAIN elem THEN copy(elem[k]) ELSE {Element(TRUE, TRUE)}) :
          LET r == add_rf_unit_element(G, k, flip, by, ui, c)
          IN  /\ SetNetwork(r.g)
              /\ call' = Call("add_rf_unit_element", k, flip, by, ui, r.raised, r.key, NoKey,
                              <<Placement(by, ui, flip, k, r.key, attached_at(G, k))>>)

\* assembly.close_rf_unit(current_key, flip, angle, shift_value)
CloseRfUnit ==
    /\ UNCHANGED others_of_assembly
    /\ MayGrow
    /\ \E k \in Range(node), flip \in Flips \cup {BadFlip} :
       \E c0, c1 \in (IF k \in DOMAIN elem THEN copy(elem[k]) ELSE {Element(TRUE, TRUE)}) :
          LET r == close_rf_unit(G, k, flip, c0, c1)
          IN  /\ SetNetwork(r.g)
              /\ call' = Call("close_rf_unit", k, flip, "human", 1, r.raised,
                              r.keys_robot, r.keys_human, r.placements)

\* assembly.add_element(element) on the new, empty assembly
AddFirstElement ==
    /\ UNCHANGED others_of_assembly
    /\ node = << >>
    /\ max_node = -1
    /\ \E e \in Elements :
          LET r == add_element(G, e, NoKey)
          IN  /\ SetNetwork(r.g)
              /\ call' = Call("add_element", NoKey, "AA", "human", 0, "none", r.key, NoKey, << >>)

\* assembly.close_rf_unit(current_key, flip, angle, shift_value) with a
\* defined flip code, module after module
CloseNextRfUnit ==
    /\ UNCHANGED others_of_assembly
    /\ Len(node) <= MaxUnits
    /\ \E k \in Range(node), flip \in Flips :
       \E c0, c1 \in (IF k \in DOMAIN elem THEN copy(elem[k]) ELSE {Element(TRUE, TRUE)}) :
          LET r == close_rf_unit(G, k, flip, c0, c1)
          IN  /\ SetNetwork(r.g)
              /\ call' = Call("close_rf_unit", k, flip, "human", 1, r.raised,
                              r.keys_robot, r.keys_human, r.placements)

\* the open connectors of the elements: <<key, connector>>
OpenConnectors ==
    {<<k, 1>> : k \in {x \in DOMAIN elem : elem[x].connector_1_state}}
    \cup {<<k, 2>> : k \in {x \in DOMAIN elem : elem[x].connector_2_state}}

\* assembly.range_filter(base_frame): base_frame decides which of the open
\* connectors lie out of range
RangeFilter ==
    /\ UNCHANGED others_of_assembly
    /\ node # << >>
    /\ \E far \in SUBSET OpenConnectors :
          LET r == range_filter(G, far)
          IN  /\ SetNetwork(r.g)
              /\ call' = Call("range_filter", NoKey, "AA", "human", 0, r.raised, NoKey, NoKey,
                              << >>)


\* the record of a range_filter call kept together with its input: far is
\* the set of connectors that base_frame puts out of range
RangeCall(raised, far) ==
    [op |-> "range_filter", current_key |-> NoKey, flip |-> "AA", placed_by |-> "human",
     unit_index |-> 0, raised |-> raised, key |-> NoKey, key2 |-> NoKey,
     placements |-> << >>, far |-> far]

\* assembly.range_filter(base_frame), the base frame kept on record
FilterRange ==
    /\ UNCHANGED others_of_assembly
    /\ node # << >>
    /\ \E far \in SUBSET OpenConnectors :
          LET r == range_filter(G, far)
          IN  /\ SetNetwork(r.g)
              /\ call' = RangeCall(r.raised, far)

\* the record of a placement kept together with the transformation it
\* applied to the new element
TransformCall(current_key, flip, placed_by, unit_index, raised, key, transform) ==
    [op |-> "add_rf_unit_element", current_key |-> current_key, flip |-> flip,
     placed_by |-> placed_by, unit_index |-> unit_index, raised |-> raised,
     key |-> key, key2 |-> NoKey, placements |-> << >>, transform |-> transform]

\* assembly.add_rf_unit_element(current_key, flip, placed_by=...,
\* unit_index=...), the transformation kept on record
PlaceRfUnit ==
    /\ UNCHANGED others_of_assembly
    /\ Len(node) <= MaxNodes
    /\ \E k \in Range(node), flip \in Flips \cup {BadFlip}, by \in Actors, ui \in {0, 1} :
       \E c \in (IF k \in DOMAIN elem THEN copy(elem[k]) ELSE {Element(TRUE, TRUE)}) :
          LET r == add_rf_unit_element(G, k, flip, by, ui, c)
          IN  /\ SetNetwork(r.g)
              /\ call' = TransformCall(k, flip, by, ui, r.raised, r.key,
                                       rf_unit_transform(G, k, flip, by))

\* The node attributes, as far as add_element and the placement set them:
\* a dict holds is_built and placed_by or lacks them (Unset); a key a
\* node's dict lacks reads as the default of default_node_attributes
Unset == "unset"
AttrDict(is_built, placed_by) == [is_built |-> is_built, placed_by |-> placed_by]
EmptyDict == AttrDict(Unset, Unset)

\* dict.update(other)
dict_update(d, other) ==
    AttrDict(IF other.is_built # Unset THEN other.is_built ELSE d.is_built,
             IF other.placed_by # Unset THEN other.placed_by ELSE d.placed_by)

\* add_element(element, key=None, attr_dict={}, **kwattr) on the
\* attributes: the dict that is the default of attr_dict is made once, at
\* the definition of the function; attr_dict.update(kwattr) writes into it
\* and add_node copies it into the node
add_element_attributes(default, attributes, key, kwattr) ==
    LET attr_dict == dict_update(default, kwattr)
    IN  [default |-> attr_dict,
         attributes |-> [k \in DOMAIN attributes \cup {key} |->
                            IF k = key THEN attr_dict ELSE attributes[k]]]

\* line 239: the keyword attributes of the add_element call of a placement
placement_kwattr(placed_by) == AttrDict("True", placed_by)

\* the record of a call kept together with the attribute dicts as the call
\* leaves them: default is the dict behind attr_dict={}, attributes the
\* dict of each node of the assembly at hand
AttrCall(op, raised, key, default, attributes) ==
    [op |-> op, current_key |-> NoKey, flip |-> "AA", placed_by |-> "human",
     unit_index |-> 0, raised |-> raised, key |-> key, key2 |-> NoKey,
     placements |-> << >>, default |-> default, attributes |-> attributes]

\* the module is imported and the first Assembly() made
InitAttributeDicts ==
    /\ node = << >>
    /\ elem = << >>
    /\ edge = {}
    /\ max_node = -1
    /\ call = AttrCall("init", "none", NoKey, EmptyDict, << >>)

\* Assembly(): another instance; the default dict of add_element belongs
\* to the function and stays
NewAssembly ==
    /\ UNCHANGED others_of_assembly
    /\ node # << >>
    /\ node' = << >>
    /\ elem' = << >>
    /\ edge' = {}
    /\ max_node' = -1
    /\ call' = AttrCall("init", "none", NoKey, call.default, << >>)

\* assembly.add_element(element), with no attributes
AddPlainElement ==
    /\ UNCHANGED others_of_assembly
    /\ Len(node) < MaxNodes
    /\ \E e \in Elements :
          LET r == add_element(G, e, NoKey)
              a == add_element_attributes(call.default, call.attributes, r.key, EmptyDict)
          IN  /\ SetNetwork(r.g)
              /\ call' = AttrCall("add_element", "none", r.key, a.default, a.attributes)

\* assembly.add_rf_unit_element(current_key, flip, placed_by=...,
\* unit_index=...): a call that reaches line 239 adds its element with
\* placed_by=placed_by and is_built=True
PlaceBuiltElement ==
    /\ UNCHANGED others_of_assembly
    /\ Len(node) < MaxNodes
    /\ \E k \in Range(node), flip \in Flips \cup {BadFlip}, by \in Actors, ui \in {0, 1} :
       \E c \in (IF k \in DOMAIN elem THEN copy(elem[k]) ELSE {Element(TRUE, TRUE)}) :
          LET r == add_rf_unit_element(G, k, flip, by, ui, c)
              a == IF r.key = NoKey
                   THEN [default |-> call.default, attributes |-> call.attributes]
                   ELSE add_element_attributes(call.default, call.attributes, r.key,
                                               placement_kwattr(by))
          IN  /\ SetNetwork(r.g)
              /\ call' = AttrCall("add_rf_unit_element", r.raised, r.key,
                                  a.default, a.attributes)

\* add_joint(edge, joint): u, v = edge, then self.add_edge(u, v,
\* joint=joint); Assembly defines add_connection and no add_edge, and its
\* bases convert to and from data and JSON, so the attribute lookup raises
\* before an edge is made
add_joint(g, u, v) == [g |-> g, raised |-> "AttributeError"]

\* the record of an add_joint call: the two keys of its edge argument
JointCall(u, v, raised) ==
    [op |-> "add_joint", current_key |-> NoKey, flip |-> "AA", placed_by |-> "human",
     unit_index |-> 0, raised |-> raised, key |-> NoKey, key2 |-> NoKey,
     placements |-> << >>, u |-> u, v |-> v]

\* assembly.add_joint((u, v), joint) between two elements of the assembly
AddJoint ==
    /\ UNCHANGED others_of_assembly
    /\ \E u \in Range(node), v \in Range(node) :
          LET r == add_joint(G, u, v)
          IN  /\ u # v
              /\ SetNetwork(r.g)
              /\ call' = JointCall(u, v, r.raised)

\* assembly.add_element(element), one element after the other
AddNextElement ==
    /\ UNCHANGED others_of_assembly
    /\ Len(node) < MaxUnits
    /\ \E e \in Elements :
          LET r == add_element(G, e, NoKey)
          IN  /\ SetNetwork(r.g)
              /\ call' = Call("add_element", NoKey, "AA", "human", 0, "none", r.key, NoKey, << >>)

\* assembly.update_connectors_states(current_key, flip, my_new_elem,
\* unit_index), my_new_elem being the element added last, as in the call
\* add_rf_unit_element makes
UpdateConnectorsStates ==
    /\ UNCHANGED others_of_assembly
    /\ Len(node) >= 2
    /\ \E k \in Range(node), new_key \in {node[Len(node)]}, flip \in Flips, ui \in {0, 1} :
          LET r == update_connectors_states(G, k, flip, new_key, ui)
          IN  /\ SetNetwork(r.g)
              /\ call' = Call("update_connectors_states", k, flip, "human", ui, r.raised,
                              new_key, NoKey, << >>)

----------------------------------------------------------------------------
(* Claims about the placement, checked under Spec *)

placement_ops == {"add_rf_unit_element", "close_rf_unit"}

\* C1: for every flip code, both actors and every existing current_key, one
\* call of add_rf_unit_element adds exactly 1 node, and exactly 1 edge when
\* unit_index = 0 and exactly 2 edges when unit_index = 1.
C1_PlacementCounts ==
    [][(/\ call'.op = "add_rf_unit_element"
        /\ call'.flip \in Flips
        /\ call'.current_key \in DOMAIN elem)
       => /\ Len(node') = Len(node) + 1
          /\ Cardinality(edge') = Cardinality(edge)
                + (IF call'.unit_index = 0 THEN 1 ELSE 2)]_vars

\* C2: over add_rf_unit_element, close_rf_unit and range_filter a connector
\* of an element of the graph that is closed stays closed: no such call
\* takes a connector from closed to open, nor drops the element.
C2_ConnectorMonotonic ==
    [][call'.op \in placement_ops \cup {"range_filter"}
       => \A k \in DOMAIN elem :
             /\ k \in DOMAIN elem'
             /\ ~elem[k].connector_1_state => ~elem'[k].connector_1_state
             /\ ~elem[k].connector_2_state => ~elem'[k].connector_2_state]_vars

\* a unit_index = 0 placement has returned on a graph holding another
\* element with a closed connector, which it found closed
C2_Witness ==
    /\ call.op = "add_rf_unit_element"
    /\ call.unit_index = 0
    /\ call.raised = "none"
    /\ \E k \in DOMAIN elem \ {call.key} :
          ~elem[k].connector_1_state \/ ~elem[k].connector_2_state

\* the assembly after one add_element on a new Assembly: the element 0
\* with both connectors open
OneOpenElement ==
    /\ node = <<0>>
    /\ max_node = 0
    /\ DOMAIN elem = {0}
    /\ elem[0] = Element(TRUE, TRUE)
    /\ edge = {}

\* C3: from the assembly holding the one element 0 with both connectors
\* open, close_rf_unit(0, 'AA', 0, 0) returns, adds exactly 2 nodes, the
\* one neighbour edge 0 -> robot key, the two parent edges robot key ->
\* human key and 0 -> human key, and leaves connector 1 of element 0 closed.
C3_CloseOnOneElement ==
    [][(/\ OneOpenElement
        /\ call'.op = "close_rf_unit"
        /\ call'.current_key = 0
        /\ call'.flip = "AA")
       => /\ call'.raised = "none"
          /\ Len(node') = 3
          /\ Range(node') = {0, call'.key, call'.key2}
          /\ edge' = {[u |-> 0, v |-> call'.key, edge_to |-> "neighbour"],
                      [u |-> call'.key, v |-> call'.key2, edge_to |-> "parent"],
                      [u |-> 0, v |-> call'.key2, edge_to |-> "parent"]}
          /\ ~elem'[0].connector_1_state]_vars

\* the module closed on the one element 0
C3_Witness ==
    /\ call.op = "close_rf_unit"
    /\ call.current_key = 0
    /\ call.flip = "AA"
    /\ call.raised = "none"
    /\ node = <<0, 1, 2>>
    /\ call.key = 1
    /\ call.key2 = 2
    /\ Cardinality(edge) = 3
    /\ elem[0] = Element(FALSE, TRUE)

\* C4: add_rf_unit_element on a current element with no open connector
\* fails and leaves nodes, edges and connector states as they were.
C4_NoOpenConnectorFails ==
    [][(/\ call'.op = "add_rf_unit_element"
        /\ call'.current_key \in DOMAIN elem
        /\ ~elem[call'.current_key].connector_1_state
        /\ ~elem[call'.current_key].connector_2_state)
       => /\ call'.raised # "none"
          /\ UNCHANGED <<node, elem, edge>>]_vars

\* C5: add_rf_unit_element with a flip code outside AA, AB, BA, BB raises,
\* for both actors and both unit_index values, and applies no node, no edge
\* and no connector state change.
C5_BadFlipRejected ==
    [][(call'.op = "add_rf_unit_element" /\ call'.flip \notin Flips)
       => /\ call'.raised # "none"
          /\ UNCHANGED <<node, elem, edge, max_node>>]_vars

\* a placement with an undefined flip code on an existing element has raised
C5_Witness ==
    /\ call.op = "add_rf_unit_element"
    /\ call.flip \notin Flips
    /\ call.current_key \in DOMAIN elem
    /\ call.raised = "UnboundLocalError"

\* C11: a close_rf_unit that returns has made exactly two placements on its
\* current_key with its flip code, the first by the robot with unit_index 0
\* and the second by the human with unit_index 1, and returns as keys_robot
\* the key of the node the first added and as keys_human the key of the
\* node the second added, two distinct nodes new to the graph.  (angle and
\* shift_value move the element only and are passed on unchanged.)
C11_CloseComposesTwoPlacements ==
    [][(call'.op = "close_rf_unit" /\ call'.raised = "none")
       => /\ Len(call'.placements) = 2
          /\ \E c0, c1 \in {1, 2} :
                call'.placements =
                    <<Placement("robot", 0, call'.flip, call'.current_key, call'.key, c0),
                      Placement("human", 1, call'.flip, call'.current_key, call'.key2, c1)>>
          /\ call'.key # call'.key2
          /\ {call'.key, call'.key2} \cap Range(node) = {}
          /\ {call'.key, call'.key2} \subseteq DOMAIN elem'
          /\ \E i, j \in DOMAIN node' :
                i < j /\ node'[i] = call'.key /\ node'[j] = call'.key2]_vars

\* a module was closed on an element that was not the only one of the graph
C11_Witness ==
    /\ call.op = "close_rf_unit"
    /\ call.raised = "none"
    /\ Len(call.placements) = 2
    /\ call.key \in DOMAIN elem
    /\ call.key2 \in DOMAIN elem
    /\ Len(node) > 3
    /\ call.current_key # node[1]

\* the row of the table for the connector a placement uses on the element e
used_row(e, flip) ==
    IF used_connector(e) = 1 THEN row_connector_1[flip] ELSE row_connector_2[flip]

\* C13: the unit_index = 1 placement of a module closed on an element with
\* an open connector applies the one row of the connector it used: that
\* row's connector is closed on the previous element (the robot's) and on
\* the new element (the human's), and when the current element had both
\* connectors open, so that both elements came with both connectors open,
\* each of the two is left with exactly that one connector closed.
C13_OneRowApplied ==
    [][(/\ call'.op = "close_rf_unit"
        /\ call'.raised = "none"
        /\ call'.current_key \in DOMAIN elem
        /\ elem[call'.current_key].connector_1_state
                \/ elem[call'.current_key].connector_2_state)
       => LET current == elem[call'.current_key]
              row == used_row(current, call'.flip)
              previous_elem == elem'[call'.key]
              my_new_elem == elem'[call'.key2]
          IN  /\ CloseConnector(previous_elem, row[1]) = previous_elem
              /\ CloseConnector(my_new_elem, row[2]) = my_new_elem
              /\ current = Element(TRUE, TRUE)
                    => /\ previous_elem = CloseConnector(Element(TRUE, TRUE), row[1])
                       /\ my_new_elem = CloseConnector(Element(TRUE, TRUE), row[2])]_vars

\* C14: every edge a call of add_rf_unit_element adds ends at the key of
\* the node that call inserted and starts at a node that was in the graph:
\* current_key -> new key tagged neighbour for unit_index 0; the node
\* inserted last before the call -> new key and current_key -> new key,
\* both tagged parent, for unit_index 1.  After any sequence of add_element
\* (with or without a key), clear and placements.
C14_EdgesEndAtNewNode ==
    [][(/\ call'.op = "add_rf_unit_element"
        /\ call'.flip \in Flips
        /\ call'.current_key \in DOMAIN elem)
       => \A x \in edge' \ edge :
             /\ x.v = call'.key
             /\ x.u \in Range(node)
             /\ call'.unit_index = 0
                   => x.u = call'.current_key /\ x.edge_to = "neighbour"
             /\ call'.unit_index = 1
                   => /\ x.u \in {call'.current_key, node[Len(node)]}
                      /\ x.edge_to = "parent"]_vars

\* C15: the key add_element returns, and the key a placement gives its new
\* node, is greater than every key of the graph before the call, and
\* add_element leaves the element of every node already in the graph as it
\* was.
C15_KeysIncrease ==
    [][(/\ call'.op \in {"add_element", "add_rf_unit_element"}
        /\ call'.key # NoKey)
       => /\ \A k \in Range(node) : call'.key > k
          /\ call'.op = "add_element"
                => \A k \in DOMAIN elem : elem'[k] = elem[k]]_vars

\* C16: a unit_index = 1 placement that returns, on a current element with
\* an open connector, leaves the connector it used on the current element
\* (1 if that was open at the start of the call, else 2) closed and the
\* other connector of the current element as it was before the call.
C16_UsedConnectorClosed ==
    [][(/\ call'.op = "add_rf_unit_element"
        /\ call'.unit_index = 1
        /\ call'.raised = "none"
        /\ call'.current_key \in DOMAIN elem
        /\ elem[call'.current_key].connector_1_state
                \/ elem[call'.current_key].connector_2_state)
       => elem'[call'.current_key] =
              CloseConnector(elem[call'.current_key],
                             used_connector(elem[call'.current_key]))]_vars

\* C17: of two close_rf_unit calls in a row on one element, the second
\* does not attach its module at the connector the first attached its
\* module at: a connector of an element takes one module at most.
C17_OneModulePerConnector ==
    [][(/\ call.op = "close_rf_unit"
        /\ call.raised = "none"
        /\ call'.op = "close_rf_unit"
        /\ call'.raised = "none"
        /\ call'.current_key = call.current_key)
       => call'.placements[1].connector # call.placements[1].connector]_vars

\* C18: a unit_index = 0 placement leaves the connector states of every
\* element that was in the graph, the current element included, as they
\* were; among the placements only those with unit_index = 1 change them.
C18_FirstUnitKeepsConnectors ==
    [][(call'.op = "add_rf_unit_element" /\ call'.unit_index = 0)
       => \A k \in DOMAIN elem : k \in DOMAIN elem' /\ elem'[k] = elem[k]]_vars

\* a unit_index = 0 placement has returned and its current element, which
\* is also the node before the new one, still has both connectors open
C18_Witness ==
    /\ call.op = "add_rf_unit_element"
    /\ call.unit_index = 0
    /\ call.raised = "none"
    /\ call.flip = "BB"
    /\ node = <<call.current_key, call.key>>
    /\ elem[call.current_key] = Element(TRUE, TRUE)

\* C19: an operation of Assembly that is not a placement leaves the
\* connector states of the elements that stay in the graph as they were.
\* (add_element is left out here: given the key of a node of the graph it
\* replaces the element, which is the matter of C15.)
C19_OnlyPlacementsClose ==
    [][call'.op \notin placement_ops \cup {"add_element"}
       => \A k \in DOMAIN elem \cap DOMAIN elem' : elem'[k] = elem[k]]_vars

\* C20: after a range_filter that returns, no connector that the base
\* frame puts out of range is open, on any element, those that had both
\* connectors open before the call included.
C20_OpenMeansInRange ==
    [][(call'.op = "range_filter" /\ call'.raised = "none")
       => \A k \in DOMAIN elem' :
             /\ elem'[k].connector_1_state => <<k, 1>> \notin call'.far
             /\ elem'[k].connector_2_state => <<k, 2>> \notin call'.far]_vars

\* the flip code mirrored, and a pair of connector indices with 1 and 2
\* swapped
Mirror(flip) ==
    CASE flip = "AA" -> "BB" [] flip = "BB" -> "AA"
      [] flip = "AB" -> "BA" [] flip = "BA" -> "AB"
Swap(pair) == <<3 - pair[1], 3 - pair[2]>>

\* the elements after the connectors pair[1] of the element at prev and
\* pair[2] of the element at new have been closed
Closed(el, prev, new, pair) ==
    [[el EXCEPT ![prev] = CloseConnector(@, pair[1])]
        EXCEPT ![new] = CloseConnector(@, pair[2])]

\* C21: a unit_index = 1 call of update_connectors_states on a current
\* element with exactly one open connector closes, on the previous and on
\* the new element, the connectors that the same row has for the mirrored
\* flip code with 1 and 2 swapped (BB against AA, BA against AB), which
\* are also those the row of the other connector has for the same flip
\* code with 1 and 2 swapped.
C21_TableMirrored ==
    [][(/\ call'.op = "update_connectors_states"
        /\ call'.unit_index = 1
        /\ call'.raised = "none"
        /\ elem[call'.current_key].connector_1_state
              # elem[call'.current_key].connector_2_state)
       => LET k == call'.current_key
              flip == call'.flip
              prev == Len(node) - 2
              row == IF elem[k].connector_1_state
                     THEN row_connector_1 ELSE row_connector_2
              other == IF elem[k].connector_1_state
                       THEN row_connector_2 ELSE row_connector_1
          IN  /\ elem' = Closed(elem, prev, call'.key, Swap(row[Mirror(flip)]))
              /\ elem' = Closed(elem, prev, call'.key, Swap(other[flip]))]_vars

\* a call with flip BA on element 0, whose connector 1 alone is open, has
\* closed connector 2 of the previous element 1 and connector 1 of the new
\* element 2
C21_Witness ==
    /\ call.op = "update_connectors_states"
    /\ call.unit_index = 1
    /\ call.flip = "BA"
    /\ call.current_key = 0
    /\ call.key = 2
    /\ node = <<0, 1, 2>>
    /\ elem[0] = Element(TRUE, FALSE)
    /\ elem[1] = Element(TRUE, FALSE)
    /\ elem[2] = Element(FALSE, TRUE)

\* C22: a placement on an existing element with one of the four flip
\* codes rotates the new element by 120 degrees for the robot and by 240
\* degrees for anyone else, and translates it by the factor a for the
\* robot and b for anyone else, where (a, b) is (0, 0) for AA, (0, c) for
\* AB, (c, 0) for BA and (c, c) for BB, and c is -1 when connector 1 of
\* the current element is open at the call and +1 otherwise.
C22_RotationAndFactors ==
    [][(/\ call'.op = "add_rf_unit_element"
        /\ call'.current_key \in DOMAIN elem
        /\ call'.flip \in Flips)
       => LET c == IF elem[call'.current_key].connector_1_state THEN -1 ELSE 1
              ab == CASE call'.flip = "AA" -> <<0, 0>>
                      [] call'.flip = "AB" -> <<0, c>>
                      [] call'.flip = "BA" -> <<c, 0>>
                      [] call'.flip = "BB" -> <<c, c>>
          IN  /\ call'.transform.applied
              /\ call'.transform.angle
                    = (IF call'.placed_by = "robot" THEN 120 ELSE 240)
              /\ call'.transform.factor
                    = (IF call'.placed_by = "robot" THEN ab[1] ELSE ab[2])]_vars

\* the human has placed an element with flip AB on element 0, whose
\* connectors were both open: rotated by 240 degrees, translated by -1
C22_Witness ==
    /\ call.op = "add_rf_unit_element"
    /\ "transform" \in DOMAIN call
    /\ call.current_key = 0
    /\ call.flip = "AB"
    /\ call.placed_by = "human"
    /\ call.unit_index = 0
    /\ call.raised = "none"
    /\ elem[0] = Element(TRUE, TRUE)
    /\ call.transform = [angle |-> 240, factor |-> -1, applied |-> TRUE]

\* C28: add_joint((u, v), joint) between two elements returns, and the
\* assembly then has the edge from u to v.
C28_AddJointAddsEdge ==
    [][call'.op = "add_joint"
       => /\ call'.raised = "none"
          /\ \E x \in edge' : x.u = call'.u /\ x.v = call'.v]_vars

\* C29: a node that add_element adds with no attributes has only the
\* default attribute values (is_built is not set on it, nor placed_by),
\* whatever calls were made before, on this Assembly or on an earlier one.
C29_NoAttributeCarryOver ==
    [][call'.op = "add_element"
       => call'.attributes[call'.key] = EmptyDict]_vars

----------------------------------------------------------------------------
(* collision_check *)

\* distances between centerlines, rod diameters and tolerances are whole
\* numbers of one length unit; rod_diameter is globals['rod_radius']*2.
Distances == {1, 2, 3}
Tolerances == {0, 1}
rod_diameter == 2

\* the centerline distances of a scene: distance[i][j] is what CurveProximity
\* gives for the i-th element of the assembly and the j-th candidate
Scenes ==
    UNION {[1..n -> [1..m -> Distances]] : n \in 0..MaxBuilt, m \in 0..MaxOptions}

\* (mutant) a pair at exactly the threshold collides too
collides_or_touches(distance, tolerance) == distance <= rod_diameter + tolerance

\* line 383: distance < rod_radius*2. + tolerance
collides(distance, tolerance) == distance < rod_diameter + tolerance

\* lines 376-384: the loop over the elements from the i-th on; results
\* grows over the whole call and collision is set from it after each
\* element
RECURSIVE collision_loop(_, _, _, _, _)
collision_loop(distance, tolerance, i, results, collision_so_far) ==
    IF i > Len(distance)
    THEN collision_so_far
    ELSE LET row == [j \in DOMAIN distance[i] |-> collides(distance[i][j], tolerance)]
         IN  collision_loop(distance, tolerance, i + 1, results \o row,
                            TRUE \in Range(results \o row))

\* collision_check(option_elems, tolerance)
collision_check(distance, tolerance) ==
    collision_loop(distance, tolerance, 1, << >>, FALSE)

\* the scene and the last call on it
CollisionCheck(distance, called, tolerance, result) ==
    [distance |-> distance, called |-> called, tolerance |-> tolerance, result |-> result]
NoCollisionCheck == CollisionCheck(<< >>, FALSE, 0, FALSE)

others_of_collision ==
    <<node, elem, edge, max_node, call, se, base_map, reuleaux, query, feed,
      build_stores_root>>

\* assembly.collision_check(option_elems, tolerance) on the scene
CheckCollision ==
    /\ UNCHANGED others_of_collision
    /\ \E tolerance \in Tolerances :
          collision_call' = CollisionCheck(collision_call.distance, TRUE, tolerance,
                                      collision_check(collision_call.distance, tolerance))

\* C12: collision_check returns true exactly when some pair of a placed
\* element and a candidate has a centerline distance strictly below
\* 2*rod_radius + tolerance; it returns false with no placed element or no
\* candidate; and on one scene a call with a tolerance at least as large as
\* that of a call that returned true returns true.
C12_CollisionIffPair ==
    [][collision_call'.called
       => /\ collision_call'.result <=>
                \E i \in DOMAIN collision_call'.distance :
                \E j \in DOMAIN collision_call'.distance[i] :
                    collision_call'.distance[i][j] < rod_diameter + collision_call'.tolerance
          /\ collision_call'.distance = << >> => ~collision_call'.result
          /\ (\A i \in DOMAIN collision_call'.distance : collision_call'.distance[i] = << >>)
                => ~collision_call'.result
          /\ (/\ collision_call.called
              /\ collision_call'.tolerance >= collision_call.tolerance
              /\ collision_call.result)
             => collision_call'.result]_vars

\* a check has returned true for a scene whose only colliding pair is with
\* the first of two placed elements, another pair lying at the threshold
C12_Witness ==
    /\ collision_call.called
    /\ collision_call.result
    /\ Len(collision_call.distance) = 2
    /\ \E j \in DOMAIN collision_call.distance[1] :
          collision_call.distance[1][j] < rod_diameter + collision_call.tolerance
    /\ \A j \in DOMAIN collision_call.distance[2] :
          collision_call.distance[2][j] >= rod_diameter + collision_call.tolerance
    /\ \E j \in DOMAIN collision_call.distance[2] :
          collision_call.distance[2][j] = rod_diameter + collision_call.tolerance

----------------------------------------------------------------------------
(* static_equilibrium_check *)

\* the locals of one evaluation.  e_len is len(e): the support, the placed
\* elements and the candidate; inside[i + 1] is se_loc at step i, whether
\* the running resultant lies in the support footprint; s_glob and s_int
\* are unbound until assigned; latched collects the steps at which the
\* temporary support was used (allow_temp_support = False, s_int = i)
SEState(pc, e_len, inside, allow, s_glob, s_int_bound, s_int, i, eq, raised, latched) ==
    [pc |-> pc, e_len |-> e_len, inside |-> inside, allow_temp_support |-> allow,
     s_glob_bound |-> s_glob, s_int_bound |-> s_int_bound, s_int |-> s_int, i |-> i,
     static_equilibrium |-> eq, raised |-> raised, latched |-> latched]

SEIdle == SEState("idle", 0, << >>, FALSE, FALSE, FALSE, 0, 0, FALSE, "none", {})

\* lines 391-423: the state at the head of the loop
se_enter(placed, inside, allow_temp_support) ==
    SEState("loop", placed + 2, inside, allow_temp_support, allow_temp_support,
            FALSE, 0, 0, FALSE, "none", {})

\* lines 438-439: the permission comes back two steps after it was used
se_regrant(allow, s_int, i) == IF ~allow /\ i > s_int + 1 THEN TRUE ELSE allow

\* lines 441-450 for one step: the result, the permission and whether the
\* step used the temporary support
se_decide(se_loc, allow, eq) ==
    LET eq1 == IF se_loc # TRUE THEN TRUE ELSE eq
        eq2 == IF se_loc # FALSE /\ allow = FALSE THEN FALSE ELSE eq1
        use == se_loc # FALSE /\ allow = TRUE
    IN  [static_equilibrium |-> IF use THEN TRUE ELSE eq2,
         allow_temp_support |-> IF use THEN FALSE ELSE allow,
         used |-> use]

\* one pass of the loop body, lines 425-452
se_step(st) ==
    IF ~st.s_glob_bound
    THEN [st EXCEPT !.pc = "done", !.raised = "UnboundLocalError"]
    ELSE LET se_loc == st.inside[st.i + 1]
             allow  == se_regrant(st.allow_temp_support, st.s_int, st.i)
             d      == se_decide(se_loc, allow, st.static_equilibrium)
         IN  [st EXCEPT !.allow_temp_support = d.allow_temp_support,
                        !.static_equilibrium = d.static_equilibrium,
                        !.s_int_bound = @ \/ d.used,
                        !.s_int = IF d.used THEN st.i ELSE @,
                        !.latched = IF d.used THEN @ \cup {st.i} ELSE @,
                        !.i = st.i + 1,
                        !.pc = IF st.i + 1 = st.e_len THEN "done" ELSE "loop"]

others_of_se ==
    <<node, elem, edge, max_node, call, base_map, reuleaux, query, feed, collision_call,
      build_stores_root>>

\* assembly.static_equilibrium_check(support, option_elems, allow_temp_support)
\* on an assembly of placed elements
SECall ==
    /\ UNCHANGED others_of_se
    /\ se.pc \in {"idle", "done"}
    /\ \E placed \in 0..MaxPlaced, allow \in BOOLEAN :
       \E inside \in [1..(placed + 2) -> BOOLEAN] :
          se' = se_enter(placed, inside, allow)

\* the loop over e
SEStep ==
    /\ UNCHANGED others_of_se
    /\ se.pc = "loop"
    /\ se' = se_step(se)

NextSE ==
    \/ SECall
    \/ SEStep

\* C6: when the running resultant lies inside the support footprint at
\* every step, static_equilibrium_check returns static_equilibrium = True
\* and the temporary support is never used (no s_int is recorded), for any
\* number of placed elements.  Stated for the calls that allow the
\* temporary support (the default), where s_glob is bound.
C6_InsideIsStable ==
    (/\ se.pc = "done"
     /\ se.s_glob_bound
     /\ \A j \in DOMAIN se.inside : se.inside[j])
    => /\ se.raised = "none"
       /\ se.static_equilibrium
       /\ se.latched = {}
       /\ ~se.s_int_bound

\* C23: a call with allow_temp_support=False (s_glob is then not bound)
\* returns, and returns static_equilibrium = False when the running
\* resultant lies outside the support footprint at the last step.
C23_DisallowedReturns ==
    (/\ se.pc = "done"
     /\ ~se.s_glob_bound)
    => /\ se.raised = "none"
       /\ (~se.inside[se.e_len] => ~se.static_equilibrium)

\* C24: within one evaluation the temporary support is used at one step at
\* most, and from that step on the permission is off at every later
\* element.
C24_PermissionOnce ==
    (se.pc \in {"loop", "done"} /\ se.latched # {})
    => /\ Cardinality(se.latched) = 1
       /\ ~se.allow_temp_support

----------------------------------------------------------------------------
(* The base pose map and the reachability score: robot/base_map.py *)

\* Points are taken on the x axis, at whole multiples of 0.01: a point is
\* its x coordinate in that unit and so are distances and the resolution.
Points == 0..MaxPoint
distance_point_point(a, b) == IF a >= b THEN a - b ELSE b - a

\* the reachability indices the spheres carry
RiValues == {1, 2}
\* the resolutions of the datasets
Resolutions == {0, 1}

WsSphere(point, ri) == [point |-> point, ri |-> ri]
ReuleauxReachability(header, spheres, resolution) ==
    [header |-> header, spheres |-> spheres, resolution |-> resolution]

\* the sphere lists: distinct points, in ascending order
SphereLists ==
    {sp \in UNION {[1..n -> [point : Points, ri : RiValues]] : n \in 0..MaxSpheres} :
        \A i, j \in DOMAIN sp : i < j => sp[i].point < sp[j].point}

\* get_kdtree_transformed: the sphere points moved by the base pose (the
\* change of basis from the pose to the world frame), labelled by position
get_kdtree_transformed(rx, pose) ==
    [i \in DOMAIN rx.spheres |-> rx.spheres[i].point + pose]

\* KDTree.nearest_neighbor(point, exclude): the labels at the least
\* distance among those not excluded (the tree returns one of them), and
\* that distance; no label left gives the distance inf
NoLabel == 0
nearest_labels(points, pt, exclude) ==
    LET left == DOMAIN points \ exclude
    IN  {l \in left : \A m \in left :
            distance_point_point(points[l], pt) <= distance_point_point(points[m], pt)}

Nbr(label, dist, found) == [label |-> label, distance |-> dist, inf |-> ~found]

\* kdtree.nearest_neighbors(pt, 2, distance_sort=True): the possible pairs
nearest_neighbors(points, pt) ==
    IF nearest_labels(points, pt, {}) = {}
    THEN {<<Nbr(NoLabel, 0, FALSE), Nbr(NoLabel, 0, FALSE)>>}
    ELSE UNION {
        IF nearest_labels(points, pt, {l}) = {}
        THEN {<<Nbr(l, distance_point_point(points[l], pt), TRUE), Nbr(NoLabel, 0, FALSE)>>}
        ELSE {<<Nbr(l, distance_point_point(points[l], pt), TRUE),
                Nbr(m, distance_point_point(points[m], pt), TRUE)>> :
              m \in nearest_labels(points, pt, {l})} :
        l \in nearest_labels(points, pt, {})}

\* d < reuleaux.resolution * 1.415, in thousandths
within_radius(nbr, resolution) == ~nbr.inf /\ nbr.distance * 1000 < resolution * 1415

\* (mutant) only the nearest sample is tested
both_within_first_only(d, resolution) == within_radius(d[1], resolution)

\* lines 64 and 77: both of the two nearest samples within the radius
both_within(d, resolution) ==
    within_radius(d[1], resolution) /\ within_radius(d[2], resolution)

\* lines 61-68: the index and the reachable flag of one target point
eval_point(rx, d) ==
    IF both_within(d, rx.resolution)
    THEN [index |-> rx.spheres[d[1].label].ri, reachable |-> TRUE]
    ELSE [index |-> 0, reachable |-> FALSE]

\* the possible scorings of a point cloud: one evaluation per point, in the
\* order of the cloud
RECURSIVE eval_cloud(_, _, _)
eval_cloud(rx, points, cloud) ==
    IF cloud = << >>
    THEN {<< >>}
    ELSE {<<ev>> \o rest :
            ev \in {eval_point(rx, d) : d \in nearest_neighbors(points, cloud[1])},
            rest \in eval_cloud(rx, points, Tail(cloud))}

\* fractions num / den with den > 0, in lowest terms
RECURSIVE gcd(_, _)
gcd(a, b) == IF b = 0 THEN a ELSE gcd(b, a % b)
abs(a) == IF a < 0 THEN -a ELSE a
Frac(n, d) ==
    LET g == gcd(abs(n), d) IN [num |-> n \div g, den |-> d \div g]
frac_add(x, y) == Frac(x.num * y.den + y.num * x.den, x.den * y.den)

RECURSIVE frac_sum(_)
frac_sum(xs) ==
    IF xs = << >> THEN Frac(0, 1) ELSE frac_add(xs[1], frac_sum(Tail(xs)))

\* statistics.mean of a non-empty list of fractions
mean(xs) ==
    LET t == frac_sum(xs) IN Frac(t.num, t.den * Len(xs))

IntList(xs) == [i \in DOMAIN xs |-> Frac(xs[i], 1)]
Repeat(x, n) == [i \in 1..n |-> x]

\* (mutant) the two sets weigh the same: the mean of the two means
ri_mean_per_set(goal_index, collision_index, with_collision) ==
    LET goal_ri_mean == mean(IntList(goal_index))
    IN  IF with_collision
        THEN LET collision_ri_mean == mean(IntList(collision_index))
             IN  mean(<<goal_ri_mean,
                        Frac(-collision_ri_mean.num, collision_ri_mean.den)>>)
        ELSE goal_ri_mean

\* lines 83-88: the aggregate score
ri_mean(goal_index, collision_index, with_collision) ==
    LET goal_ri_mean == mean(IntList(goal_index))
    IN  IF with_collision
        THEN LET collision_ri_mean == mean(IntList(collision_index))
             IN  mean(Repeat(goal_ri_mean, Len(goal_index))
                      \o Repeat(Frac(-collision_ri_mean.num, collision_ri_mean.den),
                                Len(collision_index)))
        ELSE goal_ri_mean

\* reuleaux_data as returned and stored; NoCloud stands for
\* collision_pointcloud = None
NoCloud == << >>
ReuleauxData(goal, collision, points, goal_ev, coll_ev) ==
    [goal_points |-> goal,
     collision_points |-> collision,
     reuleaux_points |-> points,
     goal_reuleaux_index |-> [j \in DOMAIN goal_ev |-> goal_ev[j].index],
     collision_reuleaux_index |-> [j \in DOMAIN coll_ev |-> coll_ev[j].index],
     reachable |-> [j \in DOMAIN goal_ev |-> goal_ev[j].reachable]]
NoData == ReuleauxData(<< >>, << >>, << >>, << >>, << >>)

\* an entry of the map: the node of a pose with its scores
Entry(point, m, data) == [point |-> point, mean_reuleaux_index |-> m, reuleaux_data |-> data]

\* BaseMap.kdtree and nearest_neighbor(pose.point): the keys of the
\* nearest entries with their distance.  The property builds the tree with
\* KDTree().build(objects); when build only returns the root it made, the
\* tree searched is empty and the distance is inf.
kdtree_nearest(map, pt, stored) ==
    LET pts == [i \in DOMAIN map |-> map[i].point]
        ls  == IF stored THEN nearest_labels(pts, pt, {}) ELSE {}
    IN  IF ls = {}
        THEN {Nbr(NoKey, 0, FALSE)}
        ELSE {Nbr(l - 1, distance_point_point(pts[l], pt), TRUE) : l \in ls}

\* (mutant) the resolution is not tested
resolution_is_zero_unchecked(resolution) == FALSE

\* line 43
resolution_is_zero(resolution) == resolution = 0

\* line 90: distance > 0.01
is_new_pose(nbr) == nbr.inf \/ nbr.distance > 1

\* lines 90-94: a new node for the pose, or the scores of node id replaced
store_pose(map, nbr, pose, m, data) ==
    IF is_new_pose(nbr)
    THEN [map |-> Append(map, Entry(pose, m, data)), id |-> Len(map)]
    ELSE [map |-> [map EXCEPT ![nbr.label + 1] =
                       [@ EXCEPT !.mean_reuleaux_index = m, !.reuleaux_data = data]],
          id |-> nbr.label]

\* get_reuleaux_index_by_base_pose: the possible outcomes of one call
QueryResult(map, raised, id, data, m) ==
    [map |-> map, raised |-> raised, id |-> id, reuleaux_data |-> data, ri_mean |-> m]

get_reuleaux_index_by_base_pose(map, pose, rx, goal, collision, stored) ==
    IF resolution_is_zero(rx.resolution)
    THEN {QueryResult(map, "ValueError", NoKey, NoData, Frac(0, 1))}
    ELSE LET points == get_kdtree_transformed(rx, pose)
         IN  {LET data == ReuleauxData(goal, collision, points, g, c)
                  m == ri_mean(data.goal_reuleaux_index, data.collision_reuleaux_index,
                               collision # NoCloud)
                  st == store_pose(map, nbr, pose, m, data)
              IN  QueryResult(st.map, "none", st.id, data, m) :
              nbr \in kdtree_nearest(map, pose, stored),
              g \in eval_cloud(rx, points, goal),
              c \in eval_cloud(rx, points, collision)}

\* the record kept of the last query
Query(pose, rx, goal, collision, res) ==
    [pose |-> pose, reuleaux |-> rx, goal |-> goal, collision |-> collision,
     raised |-> res.raised, id |-> res.id, reuleaux_data |-> res.reuleaux_data,
     ri_mean |-> res.ri_mean]
NoQuery ==
    Query(0, ReuleauxReachability(0, << >>, 0), << >>, NoCloud,
          QueryResult(<< >>, "init", NoKey, NoData, Frac(0, 1)))

others_of_map ==
    <<node, elem, edge, max_node, call, se, reuleaux, feed, collision_call, build_stores_root>>

GoalClouds == UNION {[1..n -> Points] : n \in 1..MaxGoals}
CollisionClouds == {NoCloud, <<0>>}
Datasets == {ReuleauxReachability(1, sp, r) : sp \in SphereLists, r \in Resolutions}
ScoringDatasets == {rx \in Datasets : ~resolution_is_zero(rx.resolution)}

\* base_map.get_reuleaux_index_by_base_pose(pose, reuleaux, goal_pointcloud,
\* collision_pointcloud) on a new map, for any scoring dataset and clouds
QueryScore ==
    /\ UNCHANGED others_of_map
    /\ base_map = << >>
    /\ \E pose \in Points, rx \in ScoringDatasets, goal \in GoalClouds,
          coll \in CollisionClouds :
       \E res \in get_reuleaux_index_by_base_pose(base_map, pose, rx, goal, coll,
                                                  build_stores_root) :
          /\ base_map' = res.map
          /\ query' = Query(pose, rx, goal, coll, res)

\* the datasets and the goals of the queries that fill a map
MapSpheres == <<WsSphere(0, 1), WsSphere(1, 2)>>
MapDatasets == {ReuleauxReachability(1, MapSpheres, r) : r \in Resolutions}
MapGoals == [1..1 -> Points]

\* base_map.get_reuleaux_index_by_base_pose(pose, reuleaux, goal_pointcloud)
\* on the map as the earlier queries left it
QueryMap ==
    /\ UNCHANGED others_of_map
    /\ Len(base_map) < MaxEntries
    /\ \E pose \in Points, rx \in MapDatasets, goal \in MapGoals :
       \E res \in get_reuleaux_index_by_base_pose(base_map, pose, rx, goal, NoCloud,
                                                  build_stores_root) :
          /\ base_map' = res.map
          /\ query' = Query(pose, rx, goal, NoCloud, res)

\* C7: a target point is reachable, with the index of a nearest transformed
\* sample, exactly when its two nearest transformed samples are both within
\* resolution * 1.415 of it, that is when at least two samples are; otherwise
\* it is unreachable with index 0.  A target on a sample of index k, with a
\* second sample within the radius, scores k.
SamplesWithin(q, j) ==
    {i \in DOMAIN q.reuleaux.spheres :
        distance_point_point(q.reuleaux.spheres[i].point + q.pose, q.goal[j]) * 1000
            < q.reuleaux.resolution * 1415}
SamplesNearest(q, j) ==
    {i \in DOMAIN q.reuleaux.spheres :
        \A m \in DOMAIN q.reuleaux.spheres :
            distance_point_point(q.reuleaux.spheres[i].point + q.pose, q.goal[j])
                <= distance_point_point(q.reuleaux.spheres[m].point + q.pose, q.goal[j])}
C7_ScoringRule ==
    query.raised = "none" =>
        \A j \in DOMAIN query.goal :
            LET reach == query.reuleaux_data.reachable[j]
                index == query.reuleaux_data.goal_reuleaux_index[j]
            IN  /\ reach <=> Cardinality(SamplesWithin(query, j)) >= 2
                /\ reach => \E i \in SamplesNearest(query, j) :
                                index = query.reuleaux.spheres[i].ri
                /\ ~reach => index = 0
                /\ \A i \in DOMAIN query.reuleaux.spheres :
                       (/\ query.reuleaux.spheres[i].point + query.pose = query.goal[j]
                        /\ Cardinality(SamplesWithin(query, j)) >= 2)
                       => index = query.reuleaux.spheres[i].ri
\* a scored cloud with a target on a sample of index 2 that is reachable
\* and a target that has one sample only within the radius
C7_Witness ==
    /\ query.raised = "none"
    /\ \E j \in DOMAIN query.goal :
          /\ query.reuleaux_data.reachable[j]
          /\ query.reuleaux_data.goal_reuleaux_index[j] = 2
          /\ \E i \in DOMAIN query.reuleaux.spheres :
                query.reuleaux.spheres[i].point + query.pose = query.goal[j]
    /\ \E j \in DOMAIN query.goal :
          /\ ~query.reuleaux_data.reachable[j]
          /\ Cardinality(SamplesWithin(query, j)) = 1

\* the sum of a list of integers
RECURSIVE SumOf(_)
SumOf(xs) == IF xs = << >> THEN 0 ELSE xs[1] + SumOf(Tail(xs))

\* C25: the aggregate score of a query that returns, times the number of
\* goal and collision points, is the sum of the goal indices minus the sum
\* of the collision indices when a collision cloud is given; with no
\* collision cloud it is the mean of the goal indices.
C25_PerPointWeighting ==
    query.raised = "none"
    => LET g == query.reuleaux_data.goal_reuleaux_index
           c == query.reuleaux_data.collision_reuleaux_index
           m == query.ri_mean
       IN  IF query.collision # NoCloud
           THEN m.num * (Len(g) + Len(c)) = (SumOf(g) - SumOf(c)) * m.den
           ELSE m.num * Len(g) = SumOf(g) * m.den

\* two goal points with indices 1 and 2 against one collision point with
\* index 1: the score is 2/3
C25_Witness ==
    /\ query.raised = "none"
    /\ query.collision # NoCloud
    /\ Len(query.reuleaux_data.goal_reuleaux_index) = 2
    /\ SumOf(query.reuleaux_data.goal_reuleaux_index) = 3
    /\ query.reuleaux_data.collision_reuleaux_index = <<1>>
    /\ query.ri_mean = Frac(2, 3)

\* C8: a query with a dataset of resolution 0 raises, returns no key and
\* no scores, and leaves every entry of the map as it was
C8_ZeroResolutionRaises ==
    [][(query' # query /\ query'.reuleaux.resolution = 0)
       => /\ query'.raised = "ValueError"
          /\ query'.id = NoKey
          /\ query'.reuleaux_data = NoData
          /\ base_map' = base_map]_vars
\* the query was refused on a map that holds an entry
C8_Witness ==
    /\ query.raised = "ValueError"
    /\ query.reuleaux.resolution = 0
    /\ base_map # << >>

\* C9: a query with a pose within 0.01 of the pose of the query before it
\* adds no node, returns the key the first query returned, and leaves that
\* entry with the mean score and the scored detail of the second query
C9_SecondQueryOverwrites ==
    [][(/\ query.raised = "none"
        /\ query'.raised = "none"
        /\ distance_point_point(query.pose, query'.pose) <= 1)
       => /\ Len(base_map') = Len(base_map)
          /\ query'.id = query.id
          /\ base_map'[query'.id + 1].mean_reuleaux_index = query'.ri_mean
          /\ base_map'[query'.id + 1].reuleaux_data = query'.reuleaux_data]_vars

\* C26: a query that returns appends an entry for its pose exactly when no
\* entry of the map lies at a distance below 0.01 of the pose (so always on
\* an empty map); otherwise the map keeps its length and its poses, and
\* only the scores of the entry of the returned key, a nearest one, are
\* replaced.
C26_AppendIffNoneNear ==
    [][query'.raised = "none"
       => LET near == {i \in DOMAIN base_map :
                          distance_point_point(base_map[i].point, query'.pose) < 1}
          IN  IF near = {}
              THEN /\ Len(base_map') = Len(base_map) + 1
                   /\ SubSeq(base_map', 1, Len(base_map)) = base_map
                   /\ base_map'[Len(base_map')].point = query'.pose
              ELSE /\ Len(base_map') = Len(base_map)
                   /\ query'.id + 1 \in near
                   /\ \A i \in DOMAIN base_map :
                         /\ base_map'[i].point = base_map[i].point
                         /\ i # query'.id + 1 => base_map'[i] = base_map[i]]_vars

----------------------------------------------------------------------------
(* The dataset and its updates from the topic: robot/reuleaux.py *)

\* ReuleauxReachability(): header None, no spheres, resolution None
NoHeader == 0
NoResolution == -1
NewReuleaux == ReuleauxReachability(NoHeader, << >>, NoResolution)

\* the messages of the topic: a header, 0..MaxSpheres spheres, a resolution
Headers == {1, 2}
MessageSpheres(n) == [i \in 1..n |-> WsSphere(i - 1, 1)]
Messages ==
    {ReuleauxReachability(h, MessageSpheres(n), r) :
        h \in Headers, n \in 0..MaxSpheres, r \in Resolutions}

\* the update in progress: the line it is about to run, its message, the
\* dataset it started from, and what the reader saw during it
NoSeen == [seen |-> FALSE, dataset |-> NewReuleaux]
Seen(dataset) == [seen |-> TRUE, dataset |-> dataset]
Feed(pc, message, old, observed) ==
    [pc |-> pc, message |-> message, old |-> old, observed |-> observed]
FeedIdle == Feed("idle", NewReuleaux, NewReuleaux, NoSeen)

\* update_from_message, one statement at a time
update_from_message_step(rx, pc, message) ==
    CASE pc = "header" ->
            [rx |-> [rx EXCEPT !.header = message.header], pc |-> "spheres"]
      [] pc = "spheres" ->
            [rx |-> [rx EXCEPT !.spheres = << >>], pc |-> "append"]
      [] pc = "append" /\ Len(rx.spheres) < Len(message.spheres) ->
            [rx |-> [rx EXCEPT !.spheres =
                        Append(@, message.spheres[Len(rx.spheres) + 1])],
             pc |-> "append"]
      [] pc = "append" /\ Len(rx.spheres) >= Len(message.spheres) ->
            [rx |-> rx, pc |-> "resolution"]
      [] pc = "resolution" ->
            [rx |-> [rx EXCEPT !.resolution = message.resolution], pc |-> "idle"]

others_of_feed ==
    <<node, elem, edge, max_node, call, se, base_map, query, collision_call, build_stores_root>>

\* the listener thread calls update_from_message(message)
Deliver ==
    /\ UNCHANGED others_of_feed
    /\ feed.pc = "idle"
    /\ \E message \in Messages :
          feed' = Feed("header", message, reuleaux, NoSeen)
    /\ UNCHANGED reuleaux

\* the listener thread runs the next statement of the update
UpdateStep ==
    /\ UNCHANGED others_of_feed
    /\ feed.pc # "idle"
    /\ LET st == update_from_message_step(reuleaux, feed.pc, feed.message)
       IN  /\ reuleaux' = st.rx
           /\ feed' = [feed EXCEPT !.pc = st.pc]

\* the main thread reads header, spheres and resolution of the dataset
\* while the update is under way
Observe ==
    /\ UNCHANGED others_of_feed
    /\ feed.pc # "idle"
    /\ feed' = [feed EXCEPT !.observed = Seen(reuleaux)]
    /\ UNCHANGED reuleaux

NextFeed ==
    \/ Deliver
    \/ UpdateStep
    \/ Observe

\* C10: what a reader sees during an update is the complete dataset from
\* before the update or the complete dataset of the message
C10_AtomicUpdate ==
    feed.observed.seen => feed.observed.dataset \in {feed.old, feed.message}

----------------------------------------------------------------------------
(* A query of the base map while the listener updates the dataset *)

\* get_reuleaux_index_by_base_pose under way in the main thread: the line
\* it is about to run, its arguments, the dataset as it was when line 47
\* built the transformed tree, the transformed points, and the
\* evaluations of the goal points made so far
RunningQuery(pc, pose, goal, rx, points, evals, raised, id) ==
    [pc |-> pc, pose |-> pose, goal |-> goal, reuleaux |-> rx, points |-> points,
     evals |-> evals, raised |-> raised, id |-> id]

\* lines 61-62 for one goal point, read from the dataset as it is then:
\* the index of a sphere that the list no longer holds raises IndexError
eval_point_raises(rx, d) ==
    both_within(d, rx.resolution) /\ d[1].label \notin DOMAIN rx.spheres

others_of_running ==
    <<node, elem, edge, max_node, call, se, feed, collision_call, build_stores_root>>

\* line 43: the resolution test on the dataset the listener has filled at
\* least once
QueryBegin ==
    /\ UNCHANGED others_of_running
    /\ UNCHANGED <<base_map, reuleaux>>
    /\ "pc" \notin DOMAIN query
    /\ base_map = << >>
    /\ reuleaux.resolution # NoResolution
    /\ \E pose \in Points, goal \in MapGoals :
          query' = IF resolution_is_zero(reuleaux.resolution)
                   THEN RunningQuery("done", pose, goal, reuleaux, << >>, << >>,
                                     "ValueError", NoKey)
                   ELSE RunningQuery("build", pose, goal, reuleaux, << >>, << >>,
                                     "none", NoKey)

\* line 47: reuleaux.get_kdtree_transformed(T)
QueryBuild ==
    /\ UNCHANGED others_of_running
    /\ UNCHANGED <<base_map, reuleaux>>
    /\ "pc" \in DOMAIN query
    /\ query.pc = "build"
    /\ query' = [query EXCEPT !.pc = "score", !.reuleaux = reuleaux,
                              !.points = get_kdtree_transformed(reuleaux, query.pose)]

\* lines 59-68 for the next goal point, with reuleaux.resolution and
\* reuleaux.spheres as they are at that moment; after the last point,
\* lines 83-96: the mean and the entry of the map
QueryPoint ==
    /\ UNCHANGED others_of_running
    /\ UNCHANGED reuleaux
    /\ "pc" \in DOMAIN query
    /\ query.pc = "score"
    /\ \E d \in nearest_neighbors(query.points, query.goal[Len(query.evals) + 1]) :
          IF eval_point_raises(reuleaux, d)
          THEN /\ query' = [query EXCEPT !.pc = "done", !.raised = "IndexError"]
               /\ UNCHANGED base_map
          ELSE LET evals == Append(query.evals, eval_point(reuleaux, d))
               IN  IF Len(evals) < Len(query.goal)
                   THEN /\ query' = [query EXCEPT !.evals = evals]
                        /\ UNCHANGED base_map
                   ELSE \E nbr \in kdtree_nearest(base_map, query.pose, build_stores_root) :
                          LET data == ReuleauxData(query.goal, NoCloud, query.points,
                                                   evals, << >>)
                              m == ri_mean(data.goal_reuleaux_index, << >>, FALSE)
                              st == store_pose(base_map, nbr, query.pose, m, data)
                          IN  /\ base_map' = st.map
                              /\ query' = [query EXCEPT !.pc = "done", !.evals = evals,
                                                        !.id = st.id]

\* the steps of the query and, between any two of them, those of the
\* listener thread
NextRunning ==
    \/ QueryBegin
    \/ QueryBuild
    \/ QueryPoint
    \/ Deliver
    \/ UpdateStep

\* C27: a query that has built its transformed tree scores every goal
\* point with the resolution and the indices of the dataset the tree was
\* built from, whatever update_from_message does in between: it ends
\* without an exception and its evaluations are those of that dataset.
C27_QueryUsesOneSnapshot ==
    ("pc" \in DOMAIN query /\ query.pc = "done" /\ query.raised # "ValueError")
    => /\ query.raised = "none"
       /\ query.evals \in eval_cloud(query.reuleaux, query.points, query.goal)

----------------------------------------------------------------------------
(* Specifications *)

InitOthers ==
    /\ se = SEIdle
    /\ base_map = << >>
    /\ reuleaux = NewReuleaux
    /\ query = NoQuery
    /\ feed = FeedIdle
    /\ collision_call = NoCollisionCheck
    /\ build_stores_root = TRUE

\* a new BaseMap, with either behaviour of KDTree.build
InitMap ==
    /\ InitAssembly
    /\ se = SEIdle
    /\ base_map = << >>
    /\ reuleaux = NewReuleaux
    /\ query = NoQuery
    /\ feed = FeedIdle
    /\ collision_call = NoCollisionCheck
    /\ build_stores_root \in BOOLEAN

Init == InitAssembly /\ InitOthers

Next ==
    \/ AddElement
    \/ Clear
    \/ AddRfUnitElement
    \/ CloseRfUnit
    \/ RangeFilter

\* the assembly: single-threaded, one operation at a time
Spec == Init /\ [][Next]_vars

\* sequences of modules closed on the elements of one assembly
NextModules ==
    \/ AddFirstElement
    \/ CloseNextRfUnit
SpecModules == Init /\ [][NextModules]_vars

\* range filters on assemblies of elements
NextRange ==
    \/ AddElement
    \/ FilterRange
SpecRange == Init /\ [][NextRange]_vars

\* a query in the main thread against the updates of the listener thread
SpecRunning == Init /\ [][NextRunning]_vars

\* elements added with and without attributes, on one Assembly after the
\* other
NextAttributes ==
    \/ NewAssembly
    \/ AddPlainElement
    \/ PlaceBuiltElement

InitAttributes == InitAttributeDicts /\ InitOthers

SpecAttributes == InitAttributes /\ [][NextAttributes]_vars

\* elements added one by one and joints added between them
NextJoint ==
    \/ AddNextElement
    \/ AddJoint

SpecJoint == Init /\ [][NextJoint]_vars

\* placements on a first element, their transformations on record
NextTransform ==
    \/ AddFirstElement
    \/ PlaceRfUnit

SpecTransform == Init /\ [][NextTransform]_vars

\* elements added one by one and update_connectors_states called on them
NextTable ==
    \/ AddNextElement
    \/ UpdateConnectorsStates

SpecTable == Init /\ [][NextTable]_vars

\* collision checks on one scene of placed elements and candidates
InitCollision ==
    /\ InitAssembly
    /\ se = SEIdle
    /\ base_map = << >>
    /\ reuleaux = NewReuleaux
    /\ query = NoQuery
    /\ feed = FeedIdle
    /\ build_stores_root = TRUE
    /\ \E distance \in Scenes : collision_call = CollisionCheck(distance, FALSE, 0, FALSE)
SpecCollision == InitCollision /\ [][CheckCollision]_vars

\* evaluations of static_equilibrium_check, one loop pass per step
SpecSE == Init /\ [][NextSE]_vars

\* the scoring of point clouds, on a new base pose map
SpecScore == Init /\ [][QueryScore]_vars

\* successive queries on one base pose map
SpecMap == InitMap /\ [][QueryMap]_vars

\* the listener updating the dataset while the main thread reads it
SpecFeed == Init /\ [][NextFeed]_vars

====
